---------------------------- MODULE Spec2Model ----------------------------
(***************************************************************************)
(* Model of datasets/orthodb_preparation/data_utils.py: the FASTA codec    *)
(* (read_fasta, write_fasta), compute_base_distribution, the ambiguity     *)
(* resolver with its lru_cache, random_cut_length and the two duplicate    *)
(* helpers.                                                                *)
(*                                                                         *)
(* A Python str is a sequence of one-character strings; a (header, seq)    *)
(* tuple is a pair <<header, seq>>; a float that the code obtains by       *)
(* dividing two numbers is the exact fraction <<num, den>> in lowest terms.*)
(* Each function is one action that a caller fires as a whole.             *)
(***************************************************************************)
EXTENDS Integers, Sequences, FiniteSets, TLC

VARIABLES
    pc,          \* position of the calling script
    records,     \* list of (header, seq) handed to the codec / the dedup helpers
    width,       \* wrap width of the last write_fasta call
    text,        \* content of the FASTA file
    parsed,      \* list returned by read_fasta
    seqs,        \* collection handed to compute_base_distribution
    dist,        \* mapping returned by compute_base_distribution
    seq,         \* sequence handed to resolve_ambiguous_sequence
    base_probs,  \* distribution handed to resolve_ambiguous_sequence
    resolved,    \* string returned by resolve_ambiguous_sequence
    used,        \* per character: the (bases, weights) pair handed to random.choices
    cache,       \* lru_cache of _weights_for_symbol: key -> stored value
    orig_len, K, H,   \* arguments of random_cut_length
    cut,         \* value returned by random_cut_length
    unique,      \* list returned by make_unique_records(records)
    unique2,     \* list returned by make_unique_records(unique)
    dups         \* mapping returned by find_duplicate_sequences

codecVars == <<records, width, text, parsed>>
distVars == <<seqs, dist>>
resolveVars == <<seq, base_probs, resolved, used, cache>>
cutVars == <<orig_len, K, H, cut>>
dedupVars == <<unique, unique2, dups>>
vars == <<pc, codecVars, distVars, resolveVars, cutVars, dedupVars>>

---------------------------------------------------------------------------
(* Bounds of the model *)
MaxTextLen == 6     \* characters of a file handed to read_fasta
MaxRecs == 2        \* records handed to write_fasta
MaxWidth == 3       \* explicit wrap widths 1..MaxWidth
MaxSeqs == 3        \* sequences handed to compute_base_distribution
MaxSeqLen == 2      \* characters of a sequence handed to the resolver
MaxLen == 4         \* orig_len, K and H range over 0..MaxLen
MaxRecords == 3     \* records handed to the dedup helpers

(* Program constant *)
WRAP_DEFAULT == 80

---------------------------------------------------------------------------
(* Python str helpers *)

\* the whitespace str.strip() removes, within the characters the model uses
Whitespace == {" ", "\t", "\n", "\f"}

RECURSIVE lstrip(_)
lstrip(s) == IF s # <<>> /\ Head(s) \in Whitespace THEN lstrip(Tail(s)) ELSE s

RECURSIVE rstrip(_)
rstrip(s) ==
    IF s # <<>> /\ s[Len(s)] \in Whitespace THEN rstrip(SubSeq(s, 1, Len(s) - 1)) ELSE s

\* str.strip()
strip(s) == rstrip(lstrip(s))

\* str.rstrip("\n")
RECURSIVE rstrip_newline(_)
rstrip_newline(s) ==
    IF s # <<>> /\ s[Len(s)] = "\n" THEN rstrip_newline(SubSeq(s, 1, Len(s) - 1)) ELSE s

\* str.replace(c, "")
RECURSIVE remove_char(_, _)
remove_char(s, c) ==
    IF s = <<>> THEN <<>>
    ELSE IF Head(s) = c THEN remove_char(Tail(s), c)
    ELSE <<Head(s)>> \o remove_char(Tail(s), c)

\* "".join(parts)
RECURSIVE join(_)
join(parts) == IF parts = <<>> THEN <<>> ELSE Head(parts) \o join(Tail(parts))

\* iterating a text file: each item is a line with its terminating "\n", the
\* last one without it when the file does not end in "\n"
RECURSIVE file_lines(_, _)
file_lines(t, cur) ==
    IF t = <<>> THEN (IF cur = <<>> THEN <<>> ELSE <<cur>>)
    ELSE IF Head(t) = "\n" THEN <<Append(cur, "\n")>> \o file_lines(Tail(t), <<>>)
    ELSE file_lines(Tail(t), Append(cur, Head(t)))

---------------------------------------------------------------------------
(* read_fasta *)

\* header is None: <<>>; header is a str h: <<h>>
None == <<>>

\* lines 42 and 50
seq_of(seq_lines) == remove_char(remove_char(join(seq_lines), " "), "\t")

\* lines 41-43: a '>' line closes the record in progress
\* (variant: the record in progress is dropped)
flush_no_record(recs, header, seq_lines) == recs
flush_record(recs, header, seq_lines) ==
    IF header # None THEN Append(recs, <<header[1], seq_of(seq_lines)>>) ELSE recs

\* lines 49-51: end of input closes the record in progress
end_of_input(recs, header, seq_lines) ==
    IF header # None THEN Append(recs, <<header[1], seq_of(seq_lines)>>) ELSE recs

\* line 44
\* (variant: header not stripped)
header_unstripped(line) == Tail(line)
header_of(line) == strip(Tail(line))

\* lines 36-47, then 49-53
RECURSIVE read_fasta_loop(_, _, _, _)
read_fasta_loop(lines, recs, header, seq_lines) ==
    IF lines = <<>> THEN end_of_input(recs, header, seq_lines)
    ELSE LET line == rstrip_newline(Head(lines)) IN
         IF line = <<>> THEN read_fasta_loop(Tail(lines), recs, header, seq_lines)
         ELSE IF Head(line) = ">"
              THEN read_fasta_loop(Tail(lines), flush_record(recs, header, seq_lines),
                                   <<header_of(line)>>, <<>>)
              ELSE read_fasta_loop(Tail(lines), recs, header,
                                   Append(seq_lines, strip(line)))

read_fasta(t) == read_fasta_loop(file_lines(t, <<>>), <<>>, None, <<>>)

---------------------------------------------------------------------------
(* write_fasta *)

\* lines 61-62: s[i:i + width] + "\n" for i in range(0, len(s), width)
\* (variant: the last line of a sequence gets no newline)
RECURSIVE wrapped_unterminated(_, _)
wrapped_unterminated(s, w) ==
    IF s = <<>> THEN <<>>
    ELSE IF Len(s) <= w THEN s
    ELSE SubSeq(s, 1, w) \o <<"\n">> \o wrapped_unterminated(SubSeq(s, w + 1, Len(s)), w)

RECURSIVE wrapped(_, _)
wrapped(s, w) ==
    IF s = <<>> THEN <<>>
    ELSE IF Len(s) <= w THEN s \o <<"\n">>
    ELSE SubSeq(s, 1, w) \o <<"\n">> \o wrapped(SubSeq(s, w + 1, Len(s)), w)

\* lines 59-62
RECURSIVE write_fasta(_, _)
write_fasta(recs, w) ==
    IF recs = <<>> THEN <<>>
    ELSE LET h == Head(recs)[1]
             s == Head(recs)[2]
         IN  <<">">> \o h \o <<"\n">> \o wrapped(s, w) \o write_fasta(Tail(recs), w)

---------------------------------------------------------------------------
(* Values the variables of a component hold while another one is exercised *)

CodecIdle == records = <<>> /\ width = WRAP_DEFAULT /\ text = <<>> /\ parsed = <<>>
DistIdle == seqs = <<>> /\ dist = <<>>
ResolveIdle ==
    seq = <<>> /\ base_probs = <<>> /\ resolved = <<>> /\ used = <<>> /\ cache = <<>>
CutIdle == orig_len = 0 /\ K = 0 /\ H = 0 /\ cut = 0
DedupIdle == unique = <<>> /\ unique2 = <<>> /\ dups = <<>>

\* all str of length 0..n over the characters of alphabet
StrsUpTo(alphabet, n) == UNION {[1..k -> alphabet] : k \in 0..n}

\* all lists of length 0..n of elements of pool
ListsUpTo(pool, n) == UNION {[1..k -> pool] : k \in 0..n}

---------------------------------------------------------------------------
(* The codec: a script that writes records to a file and reads the file back *)

TextAlphabet == {">", "A", " ", "\f", "\n"}

HeaderPool == { <<"h">>, <<" ", "g">>, <<"h", "\n", "g">> }
SeqPool == { <<>>, <<"A", "C", "G">>, <<"A", " ", "C">>, <<"A", ">", "C">>,
             <<">", "A">>, <<"A", "\f", "C">>, <<"A", "\n", "C">> }
Widths == (1..MaxWidth) \cup {WRAP_DEFAULT}

\* write_fasta(path, records, width), width >= 1
WriteFasta ==
    /\ pc = "start"
    /\ \E w \in Widths :
          /\ width' = w
          /\ text' = write_fasta(records, w)
    /\ pc' = "file"
    /\ UNCHANGED <<records, parsed, distVars, resolveVars, cutVars, dedupVars>>

\* parsed = read_fasta(path)
ReadFasta ==
    /\ pc = "file"
    /\ parsed' = read_fasta(text)
    /\ pc' = "read"
    /\ UNCHANGED <<records, width, text, distVars, resolveVars, cutVars, dedupVars>>

\* write then read back
InitRoundTrip ==
    /\ pc = "start"
    /\ records \in ListsUpTo(HeaderPool \X SeqPool, MaxRecs)
    /\ width = WRAP_DEFAULT /\ text = <<>> /\ parsed = <<>>
    /\ DistIdle /\ ResolveIdle /\ CutIdle /\ DedupIdle
NextRoundTrip == WriteFasta \/ ReadFasta
SpecRoundTrip == InitRoundTrip /\ [][NextRoundTrip]_vars

\* read a file with any content
InitParse ==
    /\ pc = "file"
    /\ text \in StrsUpTo(TextAlphabet, MaxTextLen)
    /\ records = <<>> /\ width = WRAP_DEFAULT /\ parsed = <<>>
    /\ DistIdle /\ ResolveIdle /\ CutIdle /\ DedupIdle
NextParse == ReadFasta
SpecParse == InitParse /\ [][NextParse]_vars

---------------------------------------------------------------------------
(* Claims about the codec *)

HasNewline(s) == \E i \in 1..Len(s) : s[i] = "\n"
HasWhitespace(s) == \E i \in 1..Len(s) : s[i] \in Whitespace
EdgeWhitespace(s) == s # <<>> /\ (s[1] \in Whitespace \/ s[Len(s)] \in Whitespace)

\* the precondition the round-trip contract states
RoundTripPre ==
    \A i \in 1..Len(records) :
        /\ ~HasNewline(records[i][1])
        /\ ~HasNewline(records[i][2])
        /\ ~EdgeWhitespace(records[i][2])

\* a wrapped line of s starts with '>' under wrap width w
ChunkStartsWithGt(s, w) == \E i \in 1..Len(s) : (i - 1) % w = 0 /\ s[i] = ">"

\* the precondition under which the code does round-trip
RoundTripPreAmended ==
    \A i \in 1..Len(records) :
        /\ ~HasNewline(records[i][1])
        /\ ~EdgeWhitespace(records[i][1])
        /\ ~HasWhitespace(records[i][2])
        /\ ~ChunkStartsWithGt(records[i][2], width)

\* C1 as stated: whenever headers and sequences hold no newline and sequences
\* no leading or trailing whitespace, read_fasta returns exactly the records
\* write_fasta wrote, for every wrap width >= 1.
C1_RoundTrip_Original == (pc = "read" /\ RoundTripPre) => parsed = records

\* C1 amended: read_fasta returns exactly the records write_fasta wrote when
\* moreover headers have no leading or trailing whitespace, sequences hold no
\* whitespace at all, and no wrapped sequence line starts with '>'.
C1_RoundTrip == (pc = "read" /\ RoundTripPreAmended) => parsed = records

\* C1 witness: two records, the first wrapped over several lines, read back
C1_Witness ==
    /\ pc = "read" /\ RoundTripPreAmended
    /\ Len(records) = 2 /\ records[1] # records[2]
    /\ Len(records[1][2]) > width
    /\ parsed = records

\* --- read_fasta stated over the lines of the file ---

\* the sorted list of a finite set of integers
RECURSIVE Sorted(_)
Sorted(S) ==
    IF S = {} THEN <<>>
    ELSE LET m == CHOOSE x \in S : \A y \in S : x <= y
         IN  <<m>> \o Sorted(S \ {m})

\* positions at which a line of t starts
LineStarts(t) == {i \in 1..Len(t) : i = 1 \/ t[i - 1] = "\n"}
\* the line starting at a, without its newline
LineAt(t, a) ==
    LET stops == {i \in a..Len(t) : t[i] = "\n"} \cup {Len(t) + 1}
        e == CHOOSE x \in stops : \A y \in stops : x <= y
    IN  SubSeq(t, a, e - 1)
HeaderStarts(t) == {a \in LineStarts(t) : t[a] = ">"}
\* the lines that follow header line a up to the next header line
BodyStarts(t, a) ==
    {b \in LineStarts(t) : b > a /\ \A c \in HeaderStarts(t) : c > a => b < c}
Trimmed(line) ==
    LET kept == {i \in 1..Len(line) :
                    /\ \E j \in 1..i : line[j] \notin Whitespace
                    /\ \E j \in i..Len(line) : line[j] \notin Whitespace}
        idx == Sorted(kept)
    IN  [k \in 1..Len(idx) |-> line[idx[k]]]
NoSpaceTab(s) == SelectSeq(s, LAMBDA c : c \notin {" ", "\t"})
RECURSIVE Concat(_, _, _)
Concat(t, starts, k) ==
    IF k > Len(starts) THEN <<>>
    ELSE NoSpaceTab(Trimmed(LineAt(t, starts[k]))) \o Concat(t, starts, k + 1)
ExpectedRecords(t) ==
    LET hs == Sorted(HeaderStarts(t))
    IN  [k \in 1..Len(hs) |->
            << Trimmed(Tail(LineAt(t, hs[k]))),
               Concat(t, Sorted(BodyStarts(t, hs[k])), 1) >>]

\* C6: read_fasta returns one record per line that begins with '>', in file
\* order: its header is the rest of that line, trimmed; its sequence is the
\* concatenation of the following lines up to the next '>' line or the end of
\* input, each trimmed and with spaces and tabs removed.  Blank lines and lines
\* before the first '>' line add nothing.
C6_ReadFasta == pc = "read" => parsed = ExpectedRecords(text)

\* C6 witness: two records read, the first with a sequence, the second with a
\* header
C6_Witness ==
    /\ pc = "read"
    /\ Len(parsed) = 2 /\ parsed[1][2] # <<>> /\ parsed[2][1] # <<>>

---------------------------------------------------------------------------
(* random_cut_length *)

Max(a, b) == IF a >= b THEN a ELSE b
Min(a, b) == IF a <= b THEN a ELSE b

\* line 146
\* (variant: no lower limit of 1)
cut_min_len_unclamped(k, h) == k - h
cut_min_len(k, h) == Max(1, k - h)

\* line 150: random.randint(a, b) returns any integer of [a, b]
\* (variant: upper end excluded, as random.randrange)
randrange(a, b) == a..(b - 1)
randint(a, b) == a..b

\* lines 143-150: the values a call can return
random_cut_length(o, k, h) ==
    IF o <= k THEN {o}
    ELSE LET min_len0 == cut_min_len(k, h)
             max_len == Min(k, o)
             min_len == IF min_len0 > max_len THEN max_len ELSE min_len0
         IN  randint(min_len, max_len)

RandomCutLength ==
    /\ pc = "start"
    /\ cut' \in random_cut_length(orig_len, K, H)
    /\ pc' = "cut"
    /\ UNCHANGED <<orig_len, K, H, codecVars, distVars, resolveVars, dedupVars>>

InitCut ==
    /\ pc = "start"
    /\ orig_len \in 0..MaxLen /\ K \in 0..MaxLen /\ H \in 0..MaxLen
    /\ cut = 0
    /\ CodecIdle /\ DistIdle /\ ResolveIdle /\ DedupIdle
NextCut == RandomCutLength
SpecCut == InitCut /\ [][NextCut]_vars

---------------------------------------------------------------------------
(* make_unique_records and find_duplicate_sequences *)

\* an OrderedDict is the list of its <<key, value>> items in insertion order
od_has(od, key) == \E i \in 1..Len(od) : od[i][1] = key

\* lines 160-161
\* (variant: a later record overwrites the header)
od_setdefault_last(od, key, value) ==
    IF od_has(od, key)
    THEN [i \in 1..Len(od) |-> IF od[i][1] = key THEN <<key, value>> ELSE od[i]]
    ELSE Append(od, <<key, value>>)
od_setdefault(od, key, value) ==
    IF ~od_has(od, key) THEN Append(od, <<key, value>>) ELSE od

\* lines 159-161
RECURSIVE unique_loop(_, _)
unique_loop(recs, od) ==
    IF recs = <<>> THEN od
    ELSE unique_loop(Tail(recs), od_setdefault(od, Head(recs)[2], Head(recs)[1]))

\* line 162
\* (variant: (seq, header) pairs returned)
items_swapped(od) == [i \in 1..Len(od) |-> <<od[i][1], od[i][2]>>]
items_to_records(od) == [i \in 1..Len(od) |-> <<od[i][2], od[i][1]>>]

\* lines 158-162
make_unique_records(recs) == items_to_records(unique_loop(recs, <<>>))

\* Counter(seqs), line 171: a mapping from each element to its count
RECURSIVE Counter(_, _)
Counter(list, c) ==
    IF list = <<>> THEN c
    ELSE LET x == Head(list)
         IN  Counter(Tail(list),
                     IF x \in DOMAIN c THEN [c EXCEPT ![x] = @ + 1]
                     ELSE c @@ (x :> 1))

\* line 172
\* (variant: count >= 1)
keep_count_ge_one(c) == c
keep_count_gt_one(c) ==
    LET keys == {k \in DOMAIN c : c[k] > 1} IN [k \in keys |-> c[k]]

\* lines 170-172
find_duplicate_sequences(recs) ==
    keep_count_gt_one(Counter([i \in 1..Len(recs) |-> recs[i][2]], <<>>))

DedupHeaders == { <<"h", "1">>, <<"h", "2">>, <<"h", "3">> }
DedupSeqs == { <<"A", "A", "A">>, <<"a", "a", "a">>, <<"C", "C", "C">> }

MakeUnique ==
    /\ pc = "start"
    /\ unique' = make_unique_records(records)
    /\ pc' = "unique"
    /\ UNCHANGED <<unique2, dups, codecVars, distVars, resolveVars, cutVars>>

\* the caller deduplicates the deduplicated list
MakeUniqueAgain ==
    /\ pc = "unique"
    /\ unique2' = make_unique_records(unique)
    /\ pc' = "unique2"
    /\ UNCHANGED <<unique, dups, codecVars, distVars, resolveVars, cutVars>>

FindDuplicates ==
    /\ pc = "start"
    /\ dups' = find_duplicate_sequences(records)
    /\ pc' = "dups"
    /\ UNCHANGED <<unique, unique2, codecVars, distVars, resolveVars, cutVars>>

InitDedup ==
    /\ pc = "start"
    /\ records \in ListsUpTo(DedupHeaders \X DedupSeqs, MaxRecords)
    /\ width = WRAP_DEFAULT /\ text = <<>> /\ parsed = <<>>
    /\ DedupIdle /\ DistIdle /\ ResolveIdle /\ CutIdle
NextDedup == MakeUnique \/ MakeUniqueAgain \/ FindDuplicates
SpecDedup == InitDedup /\ [][NextDedup]_vars

\* indices of the records whose sequence occurs at no earlier index
FirstOccurrences(recs) ==
    {i \in 1..Len(recs) : \A j \in 1..(i - 1) : recs[j][2] # recs[i][2]}

\* C3: make_unique_records returns exactly the input records at the first
\* occurrence of each distinct sequence, in input order (so each carries the
\* first header of its sequence); sequences are compared exactly, so sequences
\* that differ only in case are both kept.
C3_MakeUnique ==
    pc = "unique" =>
        LET first == Sorted(FirstOccurrences(records))
        IN  /\ Len(unique) = Cardinality({records[i][2] : i \in 1..Len(records)})
            /\ unique = [k \in 1..Len(first) |-> records[first[k]]]

\* C3 witness: a repeated sequence under another header, and a sequence that
\* differs from it only in case
C3_Witness ==
    /\ pc = "unique"
    /\ Len(records) = 3 /\ Len(unique) = 2
    /\ records[3][2] = records[1][2] /\ records[3][1] # records[1][1]
    /\ records[1][2] = <<"A", "A", "A">> /\ records[2][2] = <<"a", "a", "a">>

\* number of records with sequence s
Occurrences(recs, s) == Cardinality({i \in 1..Len(recs) : recs[i][2] = s})

\* C8: find_duplicate_sequences returns a mapping whose keys are exactly the
\* sequences that occur in at least two records, each mapped to its number of
\* occurrences, and the call leaves the input list as it was.
C8_FindDuplicates ==
    [][pc' = "dups" =>
          /\ records' = records
          /\ DOMAIN dups' = {s \in {records[i][2] : i \in 1..Len(records)} :
                                 Occurrences(records, s) >= 2}
          /\ \A s \in DOMAIN dups' : dups'[s] = Occurrences(records, s)]_vars

\* C8 witness: [(h1, AAA), (h2, CCC), (h3, AAA)] gives {AAA: 2}
C8_Witness ==
    /\ pc = "dups"
    /\ records = << <<<<"h", "1">>, <<"A", "A", "A">>>>,
                    <<<<"h", "2">>, <<"C", "C", "C">>>>,
                    <<<<"h", "3">>, <<"A", "A", "A">>>> >>
    /\ DOMAIN dups = {<<"A", "A", "A">>}
    /\ dups[<<"A", "A", "A">>] = 2

\* C9: deduplicating a deduplicated list returns it unchanged.
C9_Idempotent == pc = "unique2" => unique2 = unique

\* C9 witness: the first pass dropped a record, the second pass ran
C9_Witness ==
    /\ pc = "unique2"
    /\ Len(unique) >= 2 /\ Len(unique) < Len(records)
    /\ unique2 = unique

---------------------------------------------------------------------------
(* Fractions: the value of a Python division, <<numerator, denominator>> in
   lowest terms with a positive denominator *)

RECURSIVE GCD(_, _)
GCD(a, b) == IF b = 0 THEN a ELSE GCD(b, a % b)

Frac(n, d) == IF n = 0 THEN <<0, 1>> ELSE <<n \div GCD(n, d), d \div GCD(n, d)>>
frac_add(a, b) == Frac(a[1] * b[2] + b[1] * a[2], a[2] * b[2])
frac_div(a, b) == Frac(a[1] * b[2], a[2] * b[1])
Zero == Frac(0, 1)

RECURSIVE frac_sum(_)
frac_sum(ws) == IF ws = <<>> THEN Zero ELSE frac_add(Head(ws), frac_sum(Tail(ws)))

---------------------------------------------------------------------------
(* str.upper(), str.lower(), str.isupper() on the letters the model uses *)

UpperOf == [ a |-> "A", c |-> "C", g |-> "G", t |-> "T", n |-> "N",
             r |-> "R", y |-> "Y", s |-> "S", w |-> "W", k |-> "K",
             m |-> "M", b |-> "B", d |-> "D", h |-> "H", v |-> "V" ]
upper(ch) == IF ch \in DOMAIN UpperOf THEN UpperOf[ch] ELSE ch
isupper(ch) == \E l \in DOMAIN UpperOf : UpperOf[l] = ch
lower(ch) ==
    IF isupper(ch) THEN CHOOSE l \in DOMAIN UpperOf : UpperOf[l] = ch ELSE ch

---------------------------------------------------------------------------
(* compute_base_distribution *)

base_order == <<"A", "C", "G", "T">>
Bases == {"A", "C", "G", "T"}

\* line 88
\* (variant: every upper-case letter counted)
is_counted_any_letter(base) == isupper(base)
is_counted(base) == base \in {"A", "C", "G", "T"}

\* lines 87-89 for one sequence: counts is a Counter, 0 for a missing key
RECURSIVE count_bases(_, _)
count_bases(s, counts) ==
    IF s = <<>> THEN counts
    ELSE LET base == upper(Head(s))
         IN  count_bases(Tail(s),
                         IF is_counted(base)
                         THEN (IF base \in DOMAIN counts
                               THEN [counts EXCEPT ![base] = @ + 1]
                               ELSE counts @@ (base :> 1))
                         ELSE counts)

\* lines 86-89
RECURSIVE count_all(_, _)
count_all(ss, counts) ==
    IF ss = <<>> THEN counts ELSE count_all(Tail(ss), count_bases(Head(ss), counts))

\* counts[b] of a Counter
counter_get(counts, b) == IF b \in DOMAIN counts THEN counts[b] ELSE 0

\* sum(counts.values()), line 90
RECURSIVE sum_values(_, _)
sum_values(counts, keys) ==
    IF keys = {} THEN 0
    ELSE LET k == CHOOSE x \in keys : TRUE
         IN  counts[k] + sum_values(counts, keys \ {k})

\* lines 85-94
compute_base_distribution(ss) ==
    LET counts == count_all(ss, <<>>)
        total == sum_values(counts, DOMAIN counts)
    IN  IF total = 0 THEN [b \in Bases |-> Frac(1, 4)]
        ELSE [b \in Bases |-> Frac(counter_get(counts, b), total)]

DistSeqPool == { <<>>, <<"A", "A", "C", "G", "T">>, <<"a", "c">>,
                 <<"R", "n", "-">>, <<"g", "T", "Y">> }

ComputeBaseDistribution ==
    /\ pc = "start"
    /\ dist' = compute_base_distribution(seqs)
    /\ pc' = "dist"
    /\ UNCHANGED <<seqs, codecVars, resolveVars, cutVars, dedupVars>>

InitDist ==
    /\ pc = "start"
    /\ seqs \in ListsUpTo(DistSeqPool, MaxSeqs)
    /\ dist = <<>>
    /\ CodecIdle /\ ResolveIdle /\ CutIdle /\ DedupIdle
NextDist == ComputeBaseDistribution
SpecDist == InitDist /\ [][NextDist]_vars

\* n_b: the characters, over all sequences, that are b or its lower-case form
Positions == UNION {{<<i, j>> : j \in 1..Len(seqs[i])} : i \in 1..Len(seqs)}
N(b) == Cardinality({p \in Positions : seqs[p[1]][p[2]] \in {b, lower(b)}})
T == N("A") + N("C") + N("G") + N("T")

\* C5: the mapping has exactly the keys A, C, G, T; with no canonical base in
\* the input every weight is 1/4, otherwise the weight of b is n_b / T; the
\* weights are non-negative and sum to 1.
C5_Distribution ==
    pc = "dist" =>
        /\ DOMAIN dist = {"A", "C", "G", "T"}
        /\ \A b \in DOMAIN dist :
              /\ dist[b][1] >= 0 /\ dist[b][2] > 0
              /\ IF T = 0 THEN dist[b][1] * 4 = dist[b][2]
                 ELSE dist[b][1] * T = N(b) * dist[b][2]
        /\ LET den == dist["A"][2] * dist["C"][2] * dist["G"][2] * dist["T"][2]
           IN  dist["A"][1] * (den \div dist["A"][2])
               + dist["C"][1] * (den \div dist["C"][2])
               + dist["G"][1] * (den \div dist["G"][2])
               + dist["T"][1] * (den \div dist["T"][2]) = den

\* C5 witness: AACGT gives A 2/5 and C, G, T 1/5 each
C5_Witness ==
    /\ pc = "dist"
    /\ seqs = << <<"A", "A", "C", "G", "T">> >>
    /\ dist["A"] = <<2, 5>> /\ dist["C"] = <<1, 5>>
    /\ dist["G"] = <<1, 5>> /\ dist["T"] = <<1, 5>>

---------------------------------------------------------------------------
(* _weights_for_symbol and its lru_cache, resolve_ambiguous_sequence *)

\* lines 10-21
AMBIGUOUS_NUCLEOTIDES ==
    [ R |-> <<"A", "G">>, Y |-> <<"C", "T">>, S |-> <<"G", "C">>,
      W |-> <<"A", "T">>, K |-> <<"G", "T">>, M |-> <<"A", "C">>,
      B |-> <<"C", "G", "T">>, D |-> <<"A", "G", "T">>,
      H |-> <<"A", "C", "T">>, V |-> <<"A", "C", "G">> ]

\* line 123
tuple_of(probs) == [i \in 1..Len(base_order) |-> probs[base_order[i]]]

\* lines 104-114, the function body (an uncached call)
weights_for_symbol(symbol, base_probs_tuple) ==
    LET probs == [b \in Bases |->
                    base_probs_tuple[CHOOSE i \in 1..Len(base_order) : base_order[i] = b]]
        possible == AMBIGUOUS_NUCLEOTIDES[symbol]
        weights == [i \in 1..Len(possible) |-> probs[possible[i]]]
        s == frac_sum(weights)
    IN  IF s = Zero
        THEN <<possible, [i \in 1..Len(possible) |-> Frac(1, Len(possible))]>>
        ELSE <<possible, [i \in 1..Len(possible) |-> frac_div(weights[i], s)]>>

\* line 97: lru_cache looks the call up under the key made of both arguments
\* (variant: key made of the symbol alone)
cache_find_by_symbol(c, symbol, base_probs_tuple) ==
    {k \in DOMAIN c : k[1] = symbol}
cache_find(c, symbol, base_probs_tuple) ==
    {k \in DOMAIN c : k = <<symbol, base_probs_tuple>>}

\* lines 97-98, 129: a call through the cache; value returned and cache after
cached_weights_for_symbol(c, symbol, base_probs_tuple) ==
    LET hits == cache_find(c, symbol, base_probs_tuple)
    IN  IF hits # {}
        THEN [value |-> c[CHOOSE k \in hits : TRUE], cache |-> c]
        ELSE LET v == weights_for_symbol(symbol, base_probs_tuple)
             IN  [value |-> v, cache |-> c @@ (<<symbol, base_probs_tuple>> :> v)]

\* lines 126-129: the pair each character hands to random.choices (<<>> for a
\* character that is not ambiguous) and the cache after the loop
RECURSIVE resolve_loop(_, _, _, _)
resolve_loop(s, base_probs_tuple, c, pairs) ==
    IF s = <<>> THEN [used |-> pairs, cache |-> c]
    ELSE LET up == upper(Head(s))
         IN  IF up \in DOMAIN AMBIGUOUS_NUCLEOTIDES
             THEN LET r == cached_weights_for_symbol(c, up, base_probs_tuple)
                  IN  resolve_loop(Tail(s), base_probs_tuple, r.cache,
                                   Append(pairs, r.value))
             ELSE resolve_loop(Tail(s), base_probs_tuple, c, Append(pairs, <<>>))

\* line 130: random.choices(bases, weights=weights, k=1)[0] returns an element
\* whose weight is not zero
\* (variant: weights ignored, as random.choice)
choices_unweighted(bases, weights) == {bases[i] : i \in 1..Len(bases)}
choices(bases, weights) == {bases[i] : i \in {j \in 1..Len(bases) : weights[j][1] > 0}}

\* line 132
\* (variant: case not preserved)
cased_plain(ch, chosen) == chosen
cased(ch, chosen) == IF isupper(ch) THEN chosen ELSE lower(chosen)

\* lines 126-135: the strings a call can return
RECURSIVE resolve_outcomes(_, _)
resolve_outcomes(s, pairs) ==
    IF s = <<>> THEN {<<>>}
    ELSE LET ch == Head(s)
             here == IF Head(pairs) = <<>> THEN {ch}
                     ELSE {cased(ch, b) : b \in choices(Head(pairs)[1], Head(pairs)[2])}
         IN  {<<c>> \o rest : c \in here, rest \in resolve_outcomes(Tail(s), Tail(pairs))}

\* resolve_ambiguous_sequence(s, probs)
Call_resolve(s, probs) ==
    LET r == resolve_loop(s, tuple_of(probs), cache, <<>>)
    IN  /\ seq' = s
        /\ base_probs' = probs
        /\ used' = r.used
        /\ cache' = r.cache
        /\ resolved' \in resolve_outcomes(s, r.used)
        /\ pc' = "resolved"
        /\ UNCHANGED <<codecVars, distVars, cutVars, dedupVars>>

Dist(a, c, g, t) == [b \in Bases |-> CASE b = "A" -> a [] b = "C" -> c
                                          [] b = "G" -> g [] b = "T" -> t]
OnlyA == Dist(Frac(1, 1), Zero, Zero, Zero)
Uniform == Dist(Frac(1, 4), Frac(1, 4), Frac(1, 4), Frac(1, 4))
HalfCT == Dist(Zero, Frac(1, 2), Zero, Frac(1, 2))
MostlyA == Dist(Frac(2, 5), Frac(1, 5), Frac(1, 5), Frac(1, 5))
DistPool == {OnlyA, Uniform, HalfCT, MostlyA}

ResolveAlphabet == {"R", "Y", "S", "W", "K", "M", "B", "D", "H", "V",
                    "r", "b", "A", "-"}

\* one call, any sequence
ResolveOnce ==
    /\ pc = "start"
    /\ \E s \in StrsUpTo(ResolveAlphabet, MaxSeqLen), probs \in DistPool :
          Call_resolve(s, probs)

InitResolve ==
    /\ pc = "start"
    /\ ResolveIdle /\ CodecIdle /\ DistIdle /\ CutIdle /\ DedupIdle
NextResolve == ResolveOnce
SpecResolve == InitResolve /\ [][NextResolve]_vars

\* call after call in one process: the cache lives on
CacheSeqPool == { <<"R">>, <<"r", "B">>, <<"A", "B">> }
ResolveAgain == \E s \in CacheSeqPool, probs \in DistPool : Call_resolve(s, probs)
NextCache == ResolveAgain
SpecCache == InitResolve /\ [][NextCache]_vars

\* the ten IUPAC ambiguity symbols and their candidate bases
IupacCandidates ==
    [ R |-> {"A", "G"}, Y |-> {"C", "T"}, S |-> {"G", "C"}, W |-> {"A", "T"},
      K |-> {"G", "T"}, M |-> {"A", "C"}, B |-> {"C", "G", "T"},
      D |-> {"A", "G", "T"}, H |-> {"A", "C", "T"}, V |-> {"A", "C", "G"} ]

\* C4: the result has the length of the input; a character that is no
\* ambiguity symbol (in either case) is kept; an ambiguity symbol becomes a
\* candidate base of the symbol with non-zero weight (any candidate when all
\* candidate weights are zero), in the case of the input character.
C4_Resolve ==
    pc = "resolved" =>
        /\ Len(resolved) = Len(seq)
        /\ \A i \in 1..Len(seq) :
              LET ch == seq[i]
                  syms == {x \in DOMAIN IupacCandidates : ch \in {x, lower(x)}}
              IN  IF syms = {} THEN resolved[i] = ch
                  ELSE \E x \in syms :
                          LET cands == IupacCandidates[x]
                              live == {b \in cands : base_probs[b][1] > 0}
                              allowed == IF live = {} THEN cands ELSE live
                          IN  \E b \in allowed :
                                 resolved[i] = IF ch = x THEN b ELSE lower(b)

\* C4 witness: "rB" under {A: 1, C: 0, G: 0, T: 0} resolved to "aT"
C4_Witness ==
    /\ pc = "resolved"
    /\ seq = <<"r", "B">> /\ base_probs = OnlyA
    /\ resolved = <<"a", "T">>

\* after a call: every pair handed to random.choices is the pair an uncached
\* computation gives for that symbol and the call's distribution, and every
\* stored entry is the uncached value of its own key
CacheTransparent ==
    /\ pc = "resolved" =>
          \A i \in 1..Len(seq) :
              upper(seq[i]) \in DOMAIN AMBIGUOUS_NUCLEOTIDES =>
                  used[i] = weights_for_symbol(upper(seq[i]), tuple_of(base_probs))
    /\ \A k \in DOMAIN cache : cache[k] = weights_for_symbol(k[1], k[2])

\* C10: across any interleaving of calls with different distributions and
\* symbols the cache is transparent, and a stored entry is never modified.
C10_CacheTransparent ==
    /\ []CacheTransparent
    /\ [][\A k \in DOMAIN cache : k \in DOMAIN cache' /\ cache'[k] = cache[k]]_vars

\* C10 witness: a call whose symbol has an entry stored for another
\* distribution, with other weights than the ones the call used
C10_Witness ==
    /\ pc = "resolved"
    /\ \E i \in 1..Len(seq), k \in DOMAIN cache :
          /\ used[i] # <<>>
          /\ k[1] = upper(seq[i])
          /\ k[2] # tuple_of(base_probs)
          /\ cache[k] # used[i]
    /\ Cardinality(DOMAIN cache) >= 4

===========================================================================
